---- MODULE Spec2Model ----
(***************************************************************************)
(* plover_console_ui: the console command tree (commands.py) and the paper *)
(* tape (tape.py).                                                         *)
(*                                                                         *)
(* Strings are TLA+ strings (concatenated with \o); a token list, the      *)
(* lines written to the output sink and a node's sub_commands are          *)
(* sequences.  A command node is a record; a handle method is an operator  *)
(* from (self, words, s) to the effect of the call, where s is the state   *)
(* of the collaborators the commands act on.                               *)
(***************************************************************************)
EXTENDS Integers, Sequences, FiniteSets, TLC

VARIABLES
    registry,           \* plover.registry: category -> plugin names, in registry order
    root,               \* the tree build_commands returned
    built,              \* what the registry listed when root was built
    default_sub_commands, \* the list object that is the default of sub_commands
    engine_config,      \* engine.config
    engine_output,      \* engine.output
    config,             \* the config store handed to ColorCommand (engine._config)
    app_style,          \* get_app().style
    app_exited,         \* get_app().exit was called
    tape_shown,         \* layout: the tape pane is on
    suggestions_shown,  \* layout: the suggestions pane is on
    last,               \* the last handle call: node, words, output, result
    toggled             \* engine.config values before the last consecutive toggle calls

cmdvars == <<registry, root, built, default_sub_commands, engine_config, engine_output, config,
             app_style, app_exited, tape_shown, suggestions_shown, last, toggled>>

VARIABLES
    system,             \* plover.system, the live system definition: KEYS, NUMBERS
    announced,          \* the definition read at the last system-change notification
    laid_out,           \* the layout attributes hold a layout (they start as None)
    all_keys,           \* Tape._all_keys: the glyphs, one character each
    all_keys_filler,    \* Tape._all_keys_filler: a blank cell per glyph
    numbers,            \* Tape._numbers
    width,              \* Tape.container.width
    buffer,             \* Tape.body.buffer: the lines of the pane
    stroked             \* the last on_stroked call: keys, cells, line, exception, and the
                        \* live and the announced system it ran under

tapevars == <<system, announced, laid_out, all_keys, all_keys_filler, numbers,
              width, buffer, stroked>>

vars == <<cmdvars, tapevars>>

----------------------------------------------------------------------------
(* Bounds and input sets *)

MaxWords == 3       \* tokens in a line given to a node with children
MaxArgs == 2        \* tokens given to a node whose class has its own handle
MaxStrokeKeys == 2  \* keys engaged in one stroke
MaxRows == 2        \* rows the tape buffer takes

None == "<None>"
Tokens == {"configure", "machine", "Stentura"}    \* of a line: names of the tree
ArgTokens == {"red", "Keyboard"}                  \* of an argument list
ValidColors == {"red", "white"}                   \* what style_colored accepts
MachineNames == {"Keyboard", "Stentura"}
SystemNames == {"English", "Grid"}
Dictionary == {"Keyboard"}                        \* texts the engine has suggestions for

Words(T, n) == UNION {[1..k -> T] : k \in 0..n}

\* The sequences over S that list no name twice.
Listings(S) ==
    {q \in UNION {[1..k -> S] : k \in 0..Cardinality(S)} :
        \A i, j \in 1..Len(q) : q[i] = q[j] => i = j}

\* machine_class.get_option_info(), per machine plugin
OptionInfo(machine_name) ==
    CASE machine_name = "Keyboard" ->
            <<[name |-> "arpeggiate", default |-> "False"]>>
      [] machine_name = "Stentura" ->
            <<[name |-> "port", default |-> "None"]>>
      [] OTHER -> <<>>

----------------------------------------------------------------------------
(* String helpers *)

RECURSIVE Join(_, _)
Join(words, sep) ==
    IF words = <<>> THEN ""
    ELSE IF Len(words) = 1 THEN words[1]
    ELSE words[1] \o sep \o Join(Tail(words), sep)

RECURSIVE Repeat(_, _)
Repeat(s, n) == IF n = 0 THEN "" ELSE s \o Repeat(s, n - 1)

\* str.capitalize() on the names the model uses
Capitalize(name) ==
    CASE name = "configure" -> "Configure"
      [] name = "machine" -> "Machine"
      [] name = "system" -> "System"
      [] name = "options" -> "Options"
      [] name = "ui" -> "Ui"
      [] name = "color" -> "Color"
      [] name = "exit" -> "Exit"
      [] name = "lookup" -> "Lookup"
      [] name = "tape" -> "Tape"
      [] name = "suggestions" -> "Suggestions"
      [] name = "reset" -> "Reset"
      [] name = "output" -> "Output"
      [] OTHER -> name   \* plugin names of the model: capital first, rest lower

\* "True" / "False", as an f-string formats a bool
Str(b) == IF b THEN "True" ELSE "False"

----------------------------------------------------------------------------
(* The command tree: one constructor per class of commands.py *)

\* Command.__init__: name, sub_commands (output is the one sink of the model).
\* doc is the class's (or the instance's) __doc__; inited says that
\* Command.__init__ ran, so that the name and sub_commands attributes exist.
Command(cls, name, doc, sub_commands) ==
    [cls |-> cls, name |-> name, doc |-> doc, sub_commands |-> sub_commands,
     inited |-> TRUE, option |-> ""]

UiCommands(sub_commands) ==
    Command("UiCommands", "ui", "commands for user interface", sub_commands)

ColorCommand ==
    Command("ColorCommand", "color",
            "sets foreground color of console (web colors or hexes should work)",
            <<>>)

ExitCommand == Command("ExitCommand", "exit", "exits plover", <<>>)

LookupCommand ==
    Command("LookupCommand", "lookup", "looks up words in current dictionaries", <<>>)

ToggleTapeCommand ==
    Command("ToggleTapeCommand", "tape", "turns paper tape pane on/off", <<>>)

ToggleSuggestionsCommand ==
    Command("ToggleSuggestionsCommand", "suggestions",
            "turns suggestions pane on/off", <<>>)

ResetMachineCommand ==
    Command("ResetMachineCommand", "reset", "reconnects current machine", <<>>)

ToggleOutputCommand ==
    Command("ToggleOutputCommand", "output", "toggles plover output on/off", <<>>)

SystemSetterCommand(system_name) ==
    Command("SystemSetterCommand", system_name,
            "sets system to " \o system_name, <<>>)

\* __init__ sets __doc__, getter and setter and never calls Command.__init__:
\* the instance has no name, output or sub_commands attribute.
MachineOptionSetterCommand(machine_name, config_option) ==
    [cls |-> "MachineOptionSetterCommand", name |-> None,
     doc |-> "setting: " \o config_option.name \o " - default: " \o config_option.default,
     sub_commands |-> <<>>, inited |-> FALSE, option |-> config_option.name]

MachineOptionsCommand(machine_name) ==
    Command("MachineOptionsCommand", "options", "machine options",
            [i \in 1..Len(OptionInfo(machine_name)) |->
                MachineOptionSetterCommand(machine_name, OptionInfo(machine_name)[i])])

MachineSetterCommand(machine_name) ==
    Command("MachineSetterCommand", machine_name,
            "sets machine to " \o machine_name,
            <<MachineOptionsCommand(machine_name)>>)

\* a plausible slip: the plugins enumerated back to front
MachineCommand_reversed(reg) ==
    Command("MachineCommand", "machine", "machine commands",
            [i \in 1..Len(reg.machine) |->
                MachineSetterCommand(reg.machine[Len(reg.machine) + 1 - i])])

\* reg.machine is registry.list_plugins("machine") at the time of the call
MachineCommand(reg) ==
    Command("MachineCommand", "machine", "machine commands",
            [i \in 1..Len(reg.machine) |-> MachineSetterCommand(reg.machine[i])])

SystemCommand(reg) ==
    Command("SystemCommand", "system", "system commands",
            [i \in 1..Len(reg.system) |-> SystemSetterCommand(reg.system[i])])

ConfigureCommand(sub_commands) ==
    Command("ConfigureCommand", "configure", "configuration commands", sub_commands)

build_commands(reg) ==
    Command("Command", None, "None",
            << ConfigureCommand(<<MachineCommand(reg), SystemCommand(reg)>>),
               LookupCommand,
               ResetMachineCommand,
               ToggleOutputCommand,
               UiCommands(<<ToggleTapeCommand, ToggleSuggestionsCommand, ColorCommand>>),
               ExitCommand >>)

\* The node a path of child positions leads to, and the paths of a tree.
RECURSIVE NodeAt(_, _)
NodeAt(node, path) ==
    IF path = <<>> THEN node ELSE NodeAt(node.sub_commands[Head(path)], Tail(path))

RECURSIVE Paths(_)
Paths(node) ==
    {<<>>} \cup UNION {{<<i>> \o p : p \in Paths(node.sub_commands[i])} :
                          i \in 1..Len(node.sub_commands)}

----------------------------------------------------------------------------
(* Collaborators *)

\* The state the commands act on.
State ==
    [engine_config |-> engine_config, engine_output |-> engine_output,
     config |-> config, app_style |-> app_style, app_exited |-> app_exited,
     tape_shown |-> tape_shown, suggestions_shown |-> suggestions_shown]

\* What a handle call did: the lines written, the value returned (when no
\* exception escaped), the exception that escaped ("" when none), the calls
\* made on collaborators in the order made, and the state left behind.
Effect(out, ret, exc, acts, s) ==
    [out |-> out, ret |-> ret, exc |-> exc, acts |-> acts, s |-> s]

\* presentation.style_colored: a style for a color, or an exception
style_colored(color) ==
    IF color \in ValidColors THEN [raises |-> FALSE, style |-> color]
    ELSE [raises |-> TRUE, style |-> ""]

\* config.set(config, key, value)
set(cfg, key, value) == [cfg EXCEPT ![key] = value]

\* layout.toggle_tape / layout.toggle_suggestions: flip the pane, tell the new state
toggle_tape(s) ==
    [show |-> ~s.tape_shown, s |-> [s EXCEPT !.tape_shown = ~s.tape_shown]]

toggle_suggestions(s) ==
    [show |-> ~s.suggestions_shown,
     s |-> [s EXCEPT !.suggestions_shown = ~s.suggestions_shown]]

\* plover's unescape_translation: the tokens of the model hold no escape sequence
unescape_translation(text) == text

\* engine.get_suggestions, then suggestions.format_suggestions ("" when none)
get_suggestions(lookup) == IF lookup \in Dictionary THEN <<lookup>> ELSE <<>>

format_suggestions(suggestions) ==
    IF suggestions = <<>> THEN "" ELSE "suggestions: " \o Join(suggestions, ", ")

----------------------------------------------------------------------------
(* handle, class by class *)

Header(self) ==
    IF self.name # None
    THEN <<Capitalize(self.name), Repeat("-", Len(self.name))>>
    ELSE <<>>

\* The listing loop: a line per child, up to the first child that has no
\* name attribute, where AttributeError escapes.
Listing(self) ==
    LET subs == self.sub_commands
        bad == {i \in 1..Len(subs) : ~subs[i].inited}
        stop == IF bad = {} THEN Len(subs) + 1
                ELSE CHOOSE i \in bad : \A j \in bad : i <= j
    IN [lines |-> [i \in 1..(stop - 1) |-> subs[i].name \o " - " \o subs[i].doc],
        exc |-> IF bad = {} THEN "" ELSE "AttributeError"]

\* a plausible slip: the first token taken as consumed, the rest reported
Command_handle_tail(self, words, s) ==
    IF words # <<>>
    THEN Effect(Header(self) \o <<"Unsupported command: " \o Join(Tail(words), " ")>>,
                FALSE, "", <<>>, s)
    ELSE Effect(Header(self) \o Listing(self).lines, FALSE, Listing(self).exc, <<>>, s)

Command_handle(self, words, s) ==
    IF words # <<>>
    THEN Effect(Header(self) \o <<"Unsupported command: " \o Join(words, " ")>>,
                FALSE, "", <<>>, s)
    ELSE Effect(Header(self) \o Listing(self).lines, FALSE, Listing(self).exc, <<>>, s)

\* a plausible slip: the color persisted before the style is tried
ColorCommand_handle_persist_first(self, words, s) ==
    IF words # <<>>
    THEN LET color == words[1]
             s1 == [s EXCEPT !.config = set(s.config, "fg", color)]
         IN IF style_colored(color).raises
            THEN Effect(<<>>, FALSE, "ValueError", <<<<"set", "fg", color>>>>, s1)
            ELSE Effect(<<>>, TRUE, "",
                        << <<"set", "fg", color>>, <<"style", color>> >>,
                        [s1 EXCEPT !.app_style = style_colored(color).style])
    ELSE Effect(<<>>, FALSE, "", <<>>, s)

ColorCommand_handle(self, words, s) ==
    IF words # <<>>
    THEN LET color == words[1]
         IN IF style_colored(color).raises
            THEN Effect(<<>>, FALSE, "ValueError", <<>>, s)
            ELSE Effect(<<>>, TRUE, "",
                        << <<"style", color>>, <<"set", "fg", color>> >>,
                        [s EXCEPT !.app_style = style_colored(color).style,
                                  !.config = set(s.config, "fg", color)])
    ELSE Effect(<<>>, FALSE, "", <<>>, s)

ExitCommand_handle(self, words, s) ==
    Effect(<<>>, TRUE, "", <<<<"exit", "0">>>>, [s EXCEPT !.app_exited = TRUE])

LookupCommand_handle(self, words, s) ==
    IF words = <<>> THEN Effect(<<>>, FALSE, "", <<>>, s)
    ELSE LET text == Join(words, " ")
             lookup == unescape_translation(text)
             suggestions == format_suggestions(get_suggestions(lookup))
         IN Effect(IF suggestions # "" THEN <<suggestions>>
                   ELSE <<"'" \o lookup \o "' not found">>,
                   TRUE, "", <<<<"get_suggestions", lookup>>>>, s)

\* a plausible slip: the pane toggled, the config always told it is on
ToggleTapeCommand_handle_always_on(self, words, s) ==
    LET t == toggle_tape(s)
    IN Effect(<<"Show tape: " \o Str(t.show)>>, TRUE, "",
              << <<"toggler", "tape">>,
                 <<"engine.config", "show_stroke_display", Str(TRUE)>> >>,
              [t.s EXCEPT !.engine_config.show_stroke_display = TRUE])

ToggleTapeCommand_handle(self, words, s) ==
    LET t == toggle_tape(s)
    IN Effect(<<"Show tape: " \o Str(t.show)>>, TRUE, "",
              << <<"toggler", "tape">>,
                 <<"engine.config", "show_stroke_display", Str(t.show)>> >>,
              [t.s EXCEPT !.engine_config.show_stroke_display = t.show])

\* a plausible slip: the key of the tape toggle left in the copied handler
ToggleSuggestionsCommand_handle_tape_key(self, words, s) ==
    LET t == toggle_suggestions(s)
    IN Effect(<<"Show suggestions: " \o Str(t.show)>>, TRUE, "",
              << <<"toggler", "suggestions">>,
                 <<"engine.config", "show_stroke_display", Str(t.show)>> >>,
              [t.s EXCEPT !.engine_config.show_stroke_display = t.show])

ToggleSuggestionsCommand_handle(self, words, s) ==
    LET t == toggle_suggestions(s)
    IN Effect(<<"Show suggestions: " \o Str(t.show)>>, TRUE, "",
              << <<"toggler", "suggestions">>,
                 <<"engine.config", "show_suggestions_display", Str(t.show)>> >>,
              [t.s EXCEPT !.engine_config.show_suggestions_display = t.show])

ResetMachineCommand_handle(self, words, s) ==
    Effect(<<"Resetting machine...">>, TRUE, "", <<<<"reset_machine">>>>, s)

ToggleOutputCommand_handle(self, words, s) ==
    LET on == ~s.engine_output
    IN Effect(<<"Output: " \o (IF on THEN "Enabled" ELSE "Disabled")>>, TRUE, "",
              <<<<"engine.output", Str(on)>>>>,
              [s EXCEPT !.engine_output = on])

SystemSetterCommand_handle(self, words, s) ==
    Effect(<<"Setting system to " \o self.name>>, TRUE, "",
           <<<<"engine.config", "system_name", self.name>>>>,
           [s EXCEPT !.engine_config.system_name = self.name])

\* self.output is looked up first, and the instance has no such attribute
MachineOptionSetterCommand_handle(self, words, s) ==
    Effect(<<>>, FALSE, "AttributeError", <<>>, s)

MachineSetterCommand_handle(self, words, s) ==
    Effect(<<"Setting machine to " \o self.name>>, FALSE, "",
           <<<<"engine.config", "machine_type", self.name>>>>,
           [s EXCEPT !.engine_config.machine_type = self.name])

\* method resolution: the class's own handle, else Command.handle
handle(self, words, s) ==
    CASE self.cls = "ColorCommand" -> ColorCommand_handle(self, words, s)
      [] self.cls = "ExitCommand" -> ExitCommand_handle(self, words, s)
      [] self.cls = "LookupCommand" -> LookupCommand_handle(self, words, s)
      [] self.cls = "ToggleTapeCommand" -> ToggleTapeCommand_handle(self, words, s)
      [] self.cls = "ToggleSuggestionsCommand" ->
            ToggleSuggestionsCommand_handle(self, words, s)
      [] self.cls = "ResetMachineCommand" -> ResetMachineCommand_handle(self, words, s)
      [] self.cls = "ToggleOutputCommand" -> ToggleOutputCommand_handle(self, words, s)
      [] self.cls = "SystemSetterCommand" -> SystemSetterCommand_handle(self, words, s)
      [] self.cls = "MachineOptionSetterCommand" ->
            MachineOptionSetterCommand_handle(self, words, s)
      [] self.cls = "MachineSetterCommand" -> MachineSetterCommand_handle(self, words, s)
      [] OTHER -> Command_handle(self, words, s)

----------------------------------------------------------------------------
(* The paper tape (tape.py) *)

\* The characters of the key identifiers of the model.
Chars(key) ==
    CASE key = "#" -> <<"#">>
      [] key = "S-" -> <<"S", "-">>
      [] key = "-T" -> <<"-", "T">>
      [] key = "W-" -> <<"W", "-">>
      [] key = "*" -> <<"*">>
      [] key = "1-" -> <<"1", "-">>
      [] key = "Z-" -> <<"Z", "-">>

\* wcwidth.wcwidth: "W" stands for a glyph two columns wide
wcwidth(k) == IF k = "W" THEN 2 ELSE 1

\* System definitions, as plover.system holds them.  Every key is one
\* character with a hyphen on one side at most.  Plain has the keys of
\* English and no number keys.
SystemDef(name) ==
    CASE name = "English" ->
            [name |-> "English", KEYS |-> <<"S-", "#", "-T">>,
             NUMBERS |-> [k \in {"S-"} |-> "1-"]]
      [] name = "Grid" ->
            [name |-> "Grid", KEYS |-> <<"#", "W-", "*">>,
             NUMBERS |-> [k \in {} |-> ""]]
      [] name = "Plain" ->
            [name |-> "Plain", KEYS |-> <<"S-", "#", "-T">>,
             NUMBERS |-> [k \in {} |-> ""]]

Systems == {SystemDef(name) : name \in SystemNames}

\* The systems of the layout specification: Plain as well.
Variants == Systems \cup {SystemDef("Plain")}

\* system.KEY_ORDER: the position of each key of KEYS (from 0), and each
\* number the position of the key it stands on
KEY_ORDER(sys) ==
    [k \in {sys.KEYS[i] : i \in 1..Len(sys.KEYS)}
           \cup {sys.NUMBERS[n] : n \in DOMAIN sys.NUMBERS} |->
        IF \E i \in 1..Len(sys.KEYS) : sys.KEYS[i] = k
        THEN (CHOOSE i \in 1..Len(sys.KEYS) : sys.KEYS[i] = k) - 1
        ELSE (CHOOSE i \in 1..Len(sys.KEYS) :
                \E n \in DOMAIN sys.NUMBERS :
                    sys.NUMBERS[n] = k /\ sys.KEYS[i] = n) - 1]

\* str.strip("-")
RECURSIVE LStrip(_)
LStrip(cs) == IF cs # <<>> /\ Head(cs) = "-" THEN LStrip(Tail(cs)) ELSE cs

RECURSIVE RStrip(_)
RStrip(cs) ==
    IF cs # <<>> /\ cs[Len(cs)] = "-" THEN RStrip(SubSeq(cs, 1, Len(cs) - 1)) ELSE cs

Strip(cs) == RStrip(LStrip(cs))

\* "".join(...) on character sequences
RECURSIVE Concat(_)
Concat(parts) == IF parts = <<>> THEN <<>> ELSE Head(parts) \o Concat(Tail(parts))

\* the layout on_config_changed computes from a system definition
AllKeys(sys) == Concat([i \in 1..Len(sys.KEYS) |-> Strip(Chars(sys.KEYS[i]))])

\* a plausible slip: the reserved column given a cell of its own
Filler_with_reserved(keys) ==
    [i \in 1..(Len(keys) + 1) |->
        IF i <= Len(keys) THEN Repeat(" ", wcwidth(keys[i])) ELSE " "]

Filler(keys) == [i \in 1..Len(keys) |-> Repeat(" ", wcwidth(keys[i]))]

Numbers(sys) == {sys.NUMBERS[n] : n \in DOMAIN sys.NUMBERS}

\* a plausible slip: the layout kept when the glyphs of the system are the same
on_config_changed_when_keys_differ(update) ==
    /\ IF "system_name" \in update /\ AllKeys(system) # all_keys
       THEN /\ all_keys' = AllKeys(system)
            /\ all_keys_filler' = Filler(all_keys')
            /\ numbers' = Numbers(system)
            /\ width' = Len(all_keys') + 1
       ELSE UNCHANGED <<all_keys, all_keys_filler, numbers, width>>
    /\ IF "system_name" \in update
       THEN laid_out' = TRUE /\ announced' = system
       ELSE UNCHANGED <<laid_out, announced>>
    /\ UNCHANGED <<system, buffer, stroked, cmdvars>>

\* a plausible slip: the pane emptied when another system is laid out
on_config_changed_clearing(update) ==
    /\ IF "system_name" \in update
       THEN /\ all_keys' = AllKeys(system)
            /\ all_keys_filler' = Filler(all_keys')
            /\ numbers' = Numbers(system)
            /\ width' = Len(all_keys') + 1
            /\ laid_out' = TRUE
            /\ announced' = system
            /\ buffer' = <<>>
       ELSE UNCHANGED <<all_keys, all_keys_filler, numbers, width, laid_out, announced,
                        buffer>>
    /\ UNCHANGED <<system, stroked, cmdvars>>

\* Tape.on_config_changed(update)
on_config_changed(update) ==
    /\ IF "system_name" \in update
       THEN /\ all_keys' = AllKeys(system)
            /\ all_keys_filler' = Filler(all_keys')
            /\ numbers' = Numbers(system)
            /\ width' = Len(all_keys') + 1
            /\ laid_out' = TRUE
            /\ announced' = system
       ELSE UNCHANGED <<all_keys, all_keys_filler, numbers, width, laid_out, announced>>
    /\ UNCHANGED <<system, buffer, stroked, cmdvars>>

\* The loop of on_stroked: each key's cell set to its glyph, until a key has
\* no position (KeyError) or its position is outside the cached glyphs
\* (IndexError).
RECURSIVE Mark(_, _, _)
Mark(text, keys, order) ==
    IF keys = <<>> THEN [exc |-> "", text |-> text]
    ELSE IF Head(keys) \notin DOMAIN order THEN [exc |-> "KeyError", text |-> text]
    ELSE IF order[Head(keys)] + 1 > Len(all_keys)
         THEN [exc |-> "IndexError", text |-> text]
    ELSE Mark([text EXCEPT ![order[Head(keys)] + 1] = all_keys[order[Head(keys)] + 1]],
              Tail(keys), order)

\* a plausible slip: the numeric indicator never added
Render_without_indicator(steno_keys) ==
    IF ~laid_out THEN [exc |-> "TypeError", text |-> <<>>, keys |-> steno_keys]
    ELSE Mark(all_keys_filler, steno_keys, KEY_ORDER(system)) @@ [keys |-> steno_keys]

\* a plausible slip: the layout attributes initialised as empty lists
Render_from_empty_layout(steno_keys) ==
    LET keys == IF \E i \in 1..Len(steno_keys) : steno_keys[i] \in numbers
                THEN Append(steno_keys, "#") ELSE steno_keys
    IN Mark(all_keys_filler, keys, KEY_ORDER(system)) @@ [keys |-> keys]

\* on_stroked up to the output: the cells of the row (text) and the keys marked
\* (keys), both working copies, or the exception
Render(steno_keys) ==
    IF ~laid_out THEN [exc |-> "TypeError", text |-> <<>>, keys |-> steno_keys]
    ELSE LET keys == IF \E i \in 1..Len(steno_keys) : steno_keys[i] \in numbers
                     THEN Append(steno_keys, "#") ELSE steno_keys
         IN Mark(all_keys_filler, keys, KEY_ORDER(system)) @@ [keys |-> keys]

\* output.output_to_buffer: the line goes to the end of the buffer
output_to_buffer(buf, line) == Append(buf, line)

\* a plausible slip: the row and the key list used without the copies
\* (no "* 1", no "[:]"), so that the loop writes to the filler list and the
\* indicator is appended to the stroke's own list
on_stroked_in_place(steno_keys) ==
    /\ Len(buffer) < MaxRows
    /\ LET r == Render(steno_keys)
       IN /\ stroked' = [called |-> TRUE, keys |-> steno_keys, exc |-> r.exc,
                         text |-> r.text,
                         line |-> IF r.exc = "" THEN Join(r.text, "") ELSE "",
                         system |-> system, announced |-> announced,
                         steno_keys |-> r.keys]
          /\ buffer' = IF r.exc = "" THEN output_to_buffer(buffer, Join(r.text, ""))
                       ELSE buffer
          /\ all_keys_filler' = IF laid_out THEN r.text ELSE all_keys_filler
    /\ UNCHANGED <<system, announced, laid_out, all_keys, numbers, width, cmdvars>>

\* Tape.on_stroked(stroke): text and keys are copies, so that the filler list
\* and stroke.steno_keys (the field steno_keys of the record) are as before
on_stroked(steno_keys) ==
    /\ Len(buffer) < MaxRows
    /\ LET r == Render(steno_keys)
       IN /\ stroked' = [called |-> TRUE, keys |-> steno_keys, exc |-> r.exc,
                         text |-> r.text,
                         line |-> IF r.exc = "" THEN Join(r.text, "") ELSE "",
                         system |-> system, announced |-> announced,
                         steno_keys |-> steno_keys]
          /\ buffer' = IF r.exc = "" THEN output_to_buffer(buffer, Join(r.text, ""))
                       ELSE buffer
    /\ UNCHANGED <<system, announced, laid_out, all_keys, all_keys_filler, numbers,
                   width, cmdvars>>

\* The key identifiers a stroke may hold: those of the live system, and one
\* no system knows.
StrokeKeys == DOMAIN KEY_ORDER(system) \cup {"Z-"}

\* The keys of a set in one fixed order.
RECURSIVE AsList(_)
AsList(S) ==
    IF S = {} THEN <<>>
    ELSE LET k == CHOOSE x \in S : TRUE IN <<k>> \o AsList(S \ {k})

Stroke ==
    \E S \in SUBSET StrokeKeys :
        /\ Cardinality(S) <= MaxStrokeKeys
        /\ on_stroked(AsList(S))

ConfigChanged ==
    \E update \in {{"system_name"}, {"machine_type"}, {"system_name", "machine_type"}} :
        on_config_changed(update)

\* The host makes another system the live one.
SwitchSystem ==
    /\ \E sys \in Systems : sys # system /\ system' = sys
    /\ UNCHANGED <<announced, laid_out, all_keys, all_keys_filler, numbers, width,
                   buffer, stroked, cmdvars>>

\* The host makes another system the live one, Plain among them.
SwitchVariant ==
    /\ \E sys \in Variants : sys # system /\ system' = sys
    /\ UNCHANGED <<announced, laid_out, all_keys, all_keys_filler, numbers, width,
                   buffer, stroked, cmdvars>>

\* A stroke of one key.
StrokeKey == \E k \in StrokeKeys : on_stroked(<<k>>)

InitTape ==
    /\ system = SystemDef("English")
    /\ announced = [name |-> None, KEYS |-> <<>>, NUMBERS |-> [k \in {} |-> ""]]
    /\ laid_out = FALSE
    /\ all_keys = <<>>
    /\ all_keys_filler = <<>>
    /\ numbers = {}
    /\ width = 0
    /\ buffer = <<>>
    /\ stroked = [called |-> FALSE, keys |-> <<>>, exc |-> "", text |-> <<>>,
                  line |-> "", system |-> system, announced |-> announced,
                  steno_keys |-> <<>>]

----------------------------------------------------------------------------
(* Initial states *)

NoCall ==
    [called |-> FALSE, path |-> <<>>, words |-> <<>>, out |-> <<>>,
     ret |-> FALSE, exc |-> "", acts |-> <<>>]

\* Construction: the tree is built from what the registry lists; the panes
\* start as the engine config says.
InitCommands(registries) ==
    /\ registry \in registries
    /\ root = build_commands(registry)
    /\ built = registry
    /\ default_sub_commands = <<>>
    /\ tape_shown = FALSE
    /\ suggestions_shown = FALSE
    /\ engine_config = [machine_type |-> "Keyboard", system_name |-> "English",
                        show_stroke_display |-> tape_shown,
                        show_suggestions_display |-> suggestions_shown]
    /\ engine_output = TRUE
    /\ config = [fg |-> "white"]
    /\ app_style = "white"
    /\ app_exited = FALSE
    /\ last = [NoCall EXCEPT !.called = FALSE] @@ [pre |-> State]
    /\ toggled = [tape |-> <<>>, suggestions |-> <<>>]

Registries ==
    [machine : Listings(MachineNames), system : Listings(SystemNames)]

StdRegistry == [machine |-> <<"Keyboard", "Stentura">>, system |-> <<"English">>]

Init == InitCommands(Registries) /\ InitTape

InitStd == InitCommands({StdRegistry}) /\ InitTape

----------------------------------------------------------------------------
(* Actions *)

\* The last two of a sequence with x appended.
Recent(q, x) == IF Len(q) < 2 THEN Append(q, x) ELSE <<q[2], x>>

\* a plausible slip: the children of the tree refreshed from the registry on a call
Handle_refreshing(p, w) ==
    /\ ~app_exited
    /\ \E self \in {NodeAt(root, p)} : \E e \in {handle(self, w, State)} :
          /\ last' = [called |-> TRUE, path |-> p, words |-> w, out |-> e.out,
                      ret |-> e.ret, exc |-> e.exc, acts |-> e.acts, pre |-> State]
          /\ engine_config' = e.s.engine_config
          /\ engine_output' = e.s.engine_output
          /\ config' = e.s.config
          /\ app_style' = e.s.app_style
          /\ app_exited' = e.s.app_exited
          /\ tape_shown' = e.s.tape_shown
          /\ suggestions_shown' = e.s.suggestions_shown
          /\ toggled' = toggled
    /\ root' = build_commands(registry)
    /\ UNCHANGED <<registry, built, default_sub_commands, tapevars>>

\* One call node.handle(w), for the node at p, run to its end.
Handle(p, w) ==
    /\ ~app_exited
    /\ \E self \in {NodeAt(root, p)} : \E e \in {handle(self, w, State)} :
          /\ last' = [called |-> TRUE, path |-> p, words |-> w, out |-> e.out,
                      ret |-> e.ret, exc |-> e.exc, acts |-> e.acts, pre |-> State]
          /\ engine_config' = e.s.engine_config
          /\ engine_output' = e.s.engine_output
          /\ config' = e.s.config
          /\ app_style' = e.s.app_style
          /\ app_exited' = e.s.app_exited
          /\ tape_shown' = e.s.tape_shown
          /\ suggestions_shown' = e.s.suggestions_shown
          /\ toggled' =
                CASE self.cls = "ToggleTapeCommand" ->
                        [tape |-> Recent(toggled.tape,
                                         engine_config.show_stroke_display),
                         suggestions |-> <<>>]
                  [] self.cls = "ToggleSuggestionsCommand" ->
                        [tape |-> <<>>,
                         suggestions |-> Recent(toggled.suggestions,
                                                engine_config.show_suggestions_display)]
                  [] OTHER -> [tape |-> <<>>, suggestions |-> <<>>]
    /\ UNCHANGED <<registry, root, built, default_sub_commands, tapevars>>

\* The classes whose constructor hands no sub_commands to Command.__init__:
\* self.sub_commands of their instances is the one default list.
DefaultedClasses ==
    {"ColorCommand", "ExitCommand", "LookupCommand", "ToggleTapeCommand",
     "ToggleSuggestionsCommand", "ResetMachineCommand", "ToggleOutputCommand",
     "SystemSetterCommand"}

\* node.sub_commands, as the object holds it
sub_commands_of(node) ==
    IF node.cls \in DefaultedClasses THEN default_sub_commands ELSE node.sub_commands

BaseClasses ==
    {"Command", "UiCommands", "ConfigureCommand", "MachineCommand", "SystemCommand",
     "MachineOptionsCommand"}

\* handle on a node that has children
HandleParent ==
    \E p \in {q \in Paths(root) : NodeAt(root, q).sub_commands # <<>>} :
        \E w \in Words(Tokens, MaxWords) : Handle(p, w)

\* handle on a node whose class has a handle of its own
HandleLeaf ==
    \E p \in {q \in Paths(root) : NodeAt(root, q).cls \notin BaseClasses} :
        \E w \in Words(ArgTokens, MaxArgs) : Handle(p, w)

\* The host installs or removes a plugin.
InstallPlugin ==
    /\ \E name \in MachineNames \cup SystemNames :
          \E cat \in {"machine", "system"} :
            /\ name \in (IF cat = "machine" THEN MachineNames ELSE SystemNames)
            /\ \A i \in 1..Len(registry[cat]) : registry[cat][i] # name
            /\ registry' = [registry EXCEPT ![cat] = Append(@, name)]
    /\ UNCHANGED <<root, built, default_sub_commands, engine_config, engine_output,
                   config, app_style, app_exited, tape_shown, suggestions_shown, last,
                   toggled, tapevars>>

RemovePlugin ==
    /\ \E cat \in {"machine", "system"} :
          \E i \in 1..Len(registry[cat]) :
            registry' = [registry EXCEPT ![cat] =
                            SubSeq(@, 1, i - 1) \o SubSeq(@, i + 1, Len(@))]
    /\ UNCHANGED <<root, built, default_sub_commands, engine_config, engine_output,
                   config, app_style, app_exited, tape_shown, suggestions_shown, last,
                   toggled, tapevars>>

\* a plausible slip: SystemCommand built without sub_commands, its setters
\* then appended to self.sub_commands, which is the default list
BuildCommands_appending ==
    /\ root' = build_commands(registry)
    /\ built' = registry
    /\ default_sub_commands' = default_sub_commands \o SystemCommand(registry).sub_commands
    /\ UNCHANGED <<registry, engine_config, engine_output, config, app_style,
                   app_exited, tape_shown, suggestions_shown, last, toggled, tapevars>>

\* build_commands called again: every constructor runs, and none of them, nor
\* Command.__init__, writes to the list it was given
BuildCommands ==
    /\ root' = build_commands(registry)
    /\ built' = registry
    /\ UNCHANGED <<registry, default_sub_commands, engine_config, engine_output,
                   config, app_style, app_exited, tape_shown, suggestions_shown, last,
                   toggled, tapevars>>

\* handle, with no token, on a node of the configure subtree
HandleConfigure ==
    \E p \in {q \in Paths(root) : q # <<>> /\ q[1] = 1} : Handle(p, <<>>)

Next ==
    \/ HandleParent \/ HandleLeaf \/ InstallPlugin \/ RemovePlugin \/ BuildCommands
    \/ Stroke \/ ConfigChanged \/ SwitchSystem

Spec == Init /\ [][Next]_vars

SpecDispatch == InitStd /\ [][HandleParent]_vars

SpecLeaf == InitStd /\ [][HandleLeaf]_vars

NextBuild == InstallPlugin \/ RemovePlugin \/ BuildCommands \/ HandleConfigure

SpecBuild == Init /\ [][NextBuild]_vars

NextTape == Stroke \/ ConfigChanged \/ SwitchSystem

SpecTape == InitStd /\ [][NextTape]_vars

NextLayout == StrokeKey \/ ConfigChanged \/ SwitchVariant

SpecLayout == InitStd /\ [][NextLayout]_vars

----------------------------------------------------------------------------
(* Properties of the command tree *)

\* The node of the last handle call.
Self == NodeAt(root, last.path)

HasChildNamed(node, token) ==
    \E i \in 1..Len(node.sub_commands) :
        node.sub_commands[i].inited /\ node.sub_commands[i].name = token

ChildNamed(node, token) ==
    node.sub_commands[CHOOSE i \in 1..Len(node.sub_commands) :
        /\ node.sub_commands[i].inited /\ node.sub_commands[i].name = token
        /\ \A j \in 1..(i - 1) : node.sub_commands[j].name # token]

MachineNode(r) == r.sub_commands[1].sub_commands[1]
SystemNode(r) == r.sub_commands[1].sub_commands[2]
ChildNames(node) == [i \in 1..Len(node.sub_commands) |-> node.sub_commands[i].name]
ChildDocs(node) == [i \in 1..Len(node.sub_commands) |-> node.sub_commands[i].doc]

\* C1: handle on a node with children, given tokens whose first names a child,
\* does what that child's handle does with the remaining tokens (after the
\* node's own header) and returns its result; from the root, the line
\* configure machine <name> runs the machine setter of <name>, and nothing else.
C1_HandleDelegates ==
    /\ (last.called /\ last.words # <<>> /\ HasChildNamed(Self, Head(last.words))) =>
          LET e == handle(ChildNamed(Self, Head(last.words)), Tail(last.words), last.pre)
          IN /\ last.out = Header(Self) \o e.out
             /\ last.ret = e.ret
             /\ last.exc = e.exc
             /\ last.acts = e.acts
             /\ State = e.s
    /\ (last.called /\ last.path = <<>>
            /\ last.words = <<"configure", "machine", "Stentura">>) =>
          /\ last.acts = <<<<"engine.config", "machine_type", "Stentura">>>>
          /\ engine_config.machine_type = "Stentura"

\* C2: handle with no token, on any node that has children, writes one line
\* "<name> - <description>" per child, in order (after the node's header),
\* and returns false.
C2_ListsEveryChild ==
    (last.called /\ last.words = <<>> /\ Self.sub_commands # <<>>) =>
        /\ last.exc = ""
        /\ last.ret = FALSE
        /\ last.out = Header(Self) \o
              [i \in 1..Len(Self.sub_commands) |->
                  Self.sub_commands[i].name \o " - " \o Self.sub_commands[i].doc]

\* C3: the root, given tokens whose first names none of its children, writes
\* the one line "Unsupported command: <all the tokens, space separated>",
\* returns false, raises nothing and leaves engine, config and UI as they were.
C3_UnsupportedAtRoot ==
    /\ (last.called /\ last.path = <<>> /\ last.words # <<>>
            /\ ~HasChildNamed(root, Head(last.words))) =>
          /\ Len(last.out) = 1
          /\ last.out[1] = "Unsupported command: " \o Join(last.words, " ")
          /\ last.ret = FALSE
          /\ last.exc = ""
          /\ last.acts = <<>>
          /\ State = last.pre
    /\ (last.called /\ last.path = <<>> /\ last.words = <<"machine", "Stentura">>) =>
          last.out = <<"Unsupported command: machine Stentura">>

C3_Witness ==
    /\ last.called /\ last.path = <<>> /\ ~HasChildNamed(root, "machine")
    /\ last.words = <<"machine", "Stentura">>

\* C4: the color command given a token the style accepts leaves that token
\* under fg in the config store and returns true; given a token the style
\* rejects, the error escapes and the config store and the style are as before.
\* The store is never written before the style has been applied.
C4_ColorValidateThenPersist ==
    (last.called /\ Self.cls = "ColorCommand" /\ last.words # <<>>) =>
        IF Head(last.words) \in ValidColors
        THEN /\ last.exc = "" /\ last.ret = TRUE
             /\ config.fg = Head(last.words)
             /\ app_style = Head(last.words)
             /\ last.acts = << <<"style", Head(last.words)>>,
                               <<"set", "fg", Head(last.words)>> >>
        ELSE /\ last.exc # ""
             /\ config = last.pre.config
             /\ app_style = last.pre.app_style
             /\ \A i \in 1..Len(last.acts) : last.acts[i][1] # "set"

\* A rejected color after an accepted one: the accepted one is still stored.
C4_Witness ==
    /\ last.called /\ Self.cls = "ColorCommand"
    /\ last.words = <<"Keyboard", "red">> /\ last.exc = "ValueError"
    /\ config.fg = "red" /\ app_style = "red"

\* C7: after two consecutive calls of the tape toggle (of the suggestions
\* toggle) engine.config's show_stroke_display (show_suggestions_display) is
\* what it was before the first of the two.
C7_ToggleTwiceRestores ==
    /\ Len(toggled.tape) = 2 =>
          engine_config.show_stroke_display = toggled.tape[1]
    /\ Len(toggled.suggestions) = 2 =>
          engine_config.show_suggestions_display = toggled.suggestions[1]

C7_Witness ==
    /\ last.called /\ Self.cls = "ToggleTapeCommand"
    /\ toggled.tape = <<TRUE, FALSE>> /\ engine_config.show_stroke_display

\* C8: the children of the machine (system) command are one setter per name
\* the registry listed, in registry order, each named by the plugin and
\* described as "sets machine to <name>" ("sets system to <name>").
C8_OneSetterPerPlugin ==
    /\ ChildNames(MachineNode(root)) = built.machine
    /\ ChildNames(SystemNode(root)) = built.system
    /\ \A i \in 1..Len(built.machine) :
          /\ MachineNode(root).sub_commands[i].cls = "MachineSetterCommand"
          /\ MachineNode(root).sub_commands[i].doc = "sets machine to " \o built.machine[i]
    /\ \A i \in 1..Len(built.system) :
          /\ SystemNode(root).sub_commands[i].cls = "SystemSetterCommand"
          /\ SystemNode(root).sub_commands[i].doc = "sets system to " \o built.system[i]
    /\ built.machine = <<"Stentura", "Keyboard">> =>
          ChildDocs(MachineNode(root)) =
              <<"sets machine to Stentura", "sets machine to Keyboard">>

C8_Witness ==
    /\ built.machine = <<"Stentura", "Keyboard">>
    /\ built.system = <<"Grid", "English">>
    /\ ChildNames(MachineNode(root)) = <<"Stentura", "Keyboard">>

\* C9: a leaf's handle returns true whenever it performed its action, and
\* false only when it was given too little and did nothing.
C9_LeafReturnsTrueWhenActed ==
    (last.called /\ Self.cls \notin BaseClasses /\ last.exc = "") =>
        /\ last.acts # <<>> => last.ret = TRUE
        /\ last.ret = FALSE => (last.acts = <<>> /\ last.words = <<>>)

\* C10: the children of the machine and system nodes are the plugins listed
\* when build_commands ran; a registry change or a handle call leaves the tree
\* as it is, and only a build_commands call makes it follow the registry.
C10_TreeIsSnapshot ==
    [][/\ root' # root => (built' = registry /\ root' = build_commands(registry))
       /\ ChildNames(MachineNode(root')) = built'.machine
       /\ ChildNames(SystemNode(root')) = built'.system]_vars

\* A handle call on a tree that no longer matches the registry.
C10_Witness ==
    /\ last.called
    /\ registry.machine = <<"Keyboard", "Stentura">>
    /\ ChildNames(MachineNode(root)) = <<"Keyboard">>
    /\ registry.system = <<>> /\ ChildNames(SystemNode(root)) = <<"English">>

\* C11: handle on a machine option setter, given one token or more, reads the
\* option's value through the bound getter, then writes the line "current: ..."
\* to the output, then hands the joined tokens to the bound setter, in this
\* order, and returns true.
C11_OptionSetterReadsReportsWrites ==
    (last.called /\ Self.cls = "MachineOptionSetterCommand" /\ last.words # <<>>) =>
        /\ last.exc = ""
        /\ last.ret = TRUE
        /\ Len(last.out) = 1
        /\ Len(last.acts) = 2
        /\ last.acts[1] = <<"getter", Self.option>>
        /\ last.acts[2] = <<"setter", Self.option, Join(last.words, "")>>

\* The calls of a toggler among the last handle call's actions.
TogglerCalls == SelectSeq(last.acts, LAMBDA a : a[1] = "toggler")

\* C15: one call of a toggle command, whatever tokens it is given, calls its
\* toggler once, writes the boolean the toggler returned under the command's key
\* of engine.config, writes that same value in its output line, and returns
\* true; after the call the key equals the visibility of the pane, and the
\* other toggle's key and pane are as before.
C15_ToggleWritesWhatTogglerReturned ==
    /\ (last.called /\ Self.cls = "ToggleTapeCommand") =>
          /\ last.exc = "" /\ last.ret = TRUE
          /\ TogglerCalls = << <<"toggler", "tape">> >>
          /\ tape_shown = ~last.pre.tape_shown
          /\ last.acts[Len(last.acts)] =
                <<"engine.config", "show_stroke_display", Str(tape_shown)>>
          /\ last.out = <<"Show tape: " \o Str(tape_shown)>>
          /\ engine_config.show_stroke_display = tape_shown
          /\ suggestions_shown = last.pre.suggestions_shown
          /\ engine_config.show_suggestions_display =
                last.pre.engine_config.show_suggestions_display
    /\ (last.called /\ Self.cls = "ToggleSuggestionsCommand") =>
          /\ last.exc = "" /\ last.ret = TRUE
          /\ TogglerCalls = << <<"toggler", "suggestions">> >>
          /\ suggestions_shown = ~last.pre.suggestions_shown
          /\ last.acts[Len(last.acts)] =
                <<"engine.config", "show_suggestions_display", Str(suggestions_shown)>>
          /\ last.out = <<"Show suggestions: " \o Str(suggestions_shown)>>
          /\ engine_config.show_suggestions_display = suggestions_shown
          /\ tape_shown = last.pre.tape_shown
          /\ engine_config.show_stroke_display =
                last.pre.engine_config.show_stroke_display

\* The suggestions toggle called with tokens, the tape pane being shown.
C15_Witness ==
    /\ last.called /\ Self.cls = "ToggleSuggestionsCommand"
    /\ last.words = <<"red", "Keyboard">>
    /\ suggestions_shown /\ engine_config.show_suggestions_display
    /\ tape_shown /\ last.out = <<"Show suggestions: True">>

\* C16: no handle call changes the name, the description or the children of
\* any node of the tree; the one default list shared by the nodes constructed
\* without sub_commands is empty after any constructions and calls, so that
\* each of these nodes has no children.
C16_TreeReadOnly ==
    /\ [](/\ default_sub_commands = <<>>
          /\ \A p \in Paths(root) :
                NodeAt(root, p).cls \in DefaultedClasses =>
                    sub_commands_of(NodeAt(root, p)) = <<>>)
    /\ [][last' # last => (root' = root /\ default_sub_commands' = default_sub_commands)]_vars

\* A handle call on a setter of a rebuilt tree that has two system setters.
C16_Witness ==
    /\ last.called /\ Self.cls = "SystemSetterCommand" /\ last.path = <<1, 2, 2>>
    /\ built.system = <<"Grid", "English">> /\ sub_commands_of(Self) = <<>>

----------------------------------------------------------------------------
(* Properties of the tape *)

\* The glyph of the i-th key of a system, and whether a stroke engages it.
Glyph(sys, i) == Strip(Chars(sys.KEYS[i]))[1]

Engaged(sys, keys, i) ==
    \/ \E j \in 1..Len(keys) : KEY_ORDER(sys)[keys[j]] = i - 1
    \/ /\ "#" \in DOMAIN KEY_ORDER(sys) /\ KEY_ORDER(sys)["#"] = i - 1
       /\ \E j \in 1..Len(keys) : \E n \in DOMAIN sys.NUMBERS : keys[j] = sys.NUMBERS[n]

\* The last stroke gave a row, under a system that had been announced, and
\* engaged only keys of that system.
RowOfAnnouncedSystem ==
    /\ stroked.called /\ stroked.exc = ""
    /\ stroked.announced = stroked.system
    /\ \A j \in 1..Len(stroked.keys) : stroked.keys[j] \in DOMAIN KEY_ORDER(stroked.system)

C12_LayoutOfOneSystem ==
    /\ laid_out =>
          /\ all_keys = AllKeys(announced)
          /\ all_keys_filler = Filler(AllKeys(announced))
          /\ numbers = Numbers(announced)
          /\ width = Len(AllKeys(announced)) + 1
    /\ announced.name = "Plain" =>
          /\ all_keys = <<"S", "#", "T">>
          /\ all_keys_filler = <<" ", " ", " ">>
          /\ numbers = {} /\ width = 4
    /\ announced.name = "Grid" =>
          /\ all_keys = <<"#", "W", "*">>
          /\ all_keys_filler = <<" ", "  ", " ">>
          /\ numbers = {} /\ width = 4

\* Plain announced after a stroke under English: the same keys, laid out anew.
C12_Witness ==
    /\ announced.name = "Plain" /\ numbers = {}
    /\ stroked.called /\ stroked.exc = "" /\ stroked.announced.name = "English"
    /\ stroked.keys = <<"1-">>

\* C13: the buffer of the pane only grows at its end: a stroke that is rendered
\* adds its one row after the rows there are, which stay as they were and
\* where they were; nothing else changes the buffer, and a notification of a
\* system change adds no row.
C13_BufferAppendOnly ==
    [][/\ \/ buffer' = buffer
          \/ /\ stroked'.called /\ stroked'.exc = ""
             /\ buffer' = Append(buffer, stroked'.line)
       /\ (stroked' # stroked /\ stroked'.exc = "") =>
             (Len(buffer') = Len(buffer) + 1 /\ SubSeq(buffer', 1, Len(buffer)) = buffer)
       /\ (announced' # announced \/ laid_out' # laid_out) => buffer' = buffer]_vars

\* A row of English, still first after Grid was laid out and a row of Grid added.
C13_Witness ==
    /\ buffer = <<"S# ", "   *">>
    /\ announced.name = "Grid" /\ stroked.called /\ stroked.keys = <<"*">>

\* The keys of a stroke that the system knows.
Known(sys, keys) ==
    LET InSystem(k) == k \in DOMAIN KEY_ORDER(sys) IN SelectSeq(keys, InSystem)

\* C14: a stroke holding a key the live system has no position for is rendered
\* all the same: that key is left out, the other keys are marked as usual, and
\* the row is added to the buffer.
C14_UnknownKeyIgnored ==
    (/\ stroked.called /\ stroked.announced = stroked.system
     /\ \E j \in 1..Len(stroked.keys) :
            stroked.keys[j] \notin DOMAIN KEY_ORDER(stroked.system)) =>
        /\ stroked.exc = ""
        /\ Len(stroked.text) = Len(stroked.system.KEYS)
        /\ \A i \in 1..Len(stroked.text) :
              stroked.text[i] =
                  IF Engaged(stroked.system, Known(stroked.system, stroked.keys), i)
                  THEN Glyph(stroked.system, i)
                  ELSE Repeat(" ", wcwidth(Glyph(stroked.system, i)))
        /\ buffer # <<>> /\ buffer[Len(buffer)] = stroked.line

\* C17: a stroke handled before any notification that names system_name fails
\* with an error (None * 1 is a TypeError) and adds no row; the buffer holds a
\* row only after such a notification.
C17_NoRowBeforeLayout ==
    /\ (stroked.called /\ stroked.announced.name = None) =>
          (stroked.exc = "TypeError" /\ stroked.line = "")
    /\ ~laid_out => buffer = <<>>
    /\ buffer # <<>> => announced.name # None

\* The empty stroke and nothing laid out yet.
C17_Witness ==
    /\ stroked.called /\ stroked.keys = <<>> /\ stroked.exc = "TypeError"
    /\ ~laid_out /\ announced.name = None /\ buffer = <<>>

\* C18: on_stroked leaves the glyphs, the filler list and the number key set
\* as they were, and the stroke's key list as it was given (the indicator goes
\* to a copy); a row holds marks of its own stroke only: a cell that is not
\* blank is the cell of a key of that stroke, or of "#" for a number key.
C18_StrokeLeavesLayoutAndStroke ==
    /\ [](stroked.called => stroked.steno_keys = stroked.keys)
    /\ [](laid_out => all_keys_filler = Filler(all_keys))
    /\ []((stroked.called /\ stroked.exc = "") =>
            \A i \in 1..Len(stroked.text) :
                stroked.text[i] # Filler(AllKeys(stroked.announced))[i] =>
                    Engaged(stroked.system, stroked.keys, i))
    /\ [][(stroked' # stroked \/ buffer' # buffer) =>
            /\ all_keys' = all_keys
            /\ all_keys_filler' = all_keys_filler
            /\ numbers' = numbers]_vars

\* The row of -T after the row of a number key: no mark of the first is left.
C18_Witness ==
    /\ buffer = <<"S# ", "  T">>
    /\ stroked.called /\ stroked.keys = <<"-T">> /\ stroked.steno_keys = <<"-T">>
    /\ all_keys_filler = <<" ", " ", " ">> /\ numbers = {"1-"}

\* C19: whatever the order of system switches, notifications and strokes, a
\* row with a key in it is rendered with the key positions and the cached
\* layout of one and the same system definition: a cell that is marked holds
\* the glyph the live system has at that position.
C19_RowOfOneSystem ==
    (stroked.called /\ stroked.exc = "" /\ stroked.keys # <<>>) =>
        /\ stroked.system = stroked.announced
        /\ \A i \in 1..Len(stroked.text) :
              stroked.text[i] # Filler(AllKeys(stroked.announced))[i] =>
                  stroked.text[i] = Glyph(stroked.system, i)

====
